---- MODULE Spec2Model ----
(***************************************************************************)
(* Model of il2cppdumper-wrapper.py: the native dialog helper               *)
(* (get_native_dialog_selection) and the run workflow of IL2CppDumperApp    *)
(* (run_dumper on the Tk main thread, run_dumper_async on a worker thread,  *)
(* self.after() as the dispatch queue between them).                        *)
(*                                                                         *)
(* Text is modelled as a sequence of tokens: a token is either a white-     *)
(* space character or an atom standing for a run of non-blank characters.   *)
(* A path is such a sequence; the empty sequence is the empty string.       *)
(***************************************************************************)
EXTENDS Integers, Sequences, FiniteSets, TLC

VARIABLES
    exec_entry,     \* text of self.exec_entry
    meta_entry,     \* text of self.meta_entry
    output_entry,   \* text of self.output_entry
    run_button,     \* state of self.run_button: "normal" or "disabled"
    output_log,     \* entries inserted into self.output_log, oldest first
    afterQueue,     \* callbacks scheduled with self.after(0, ...), oldest first
    threads,        \* one record per started dumper_thread, in start order
    fs,             \* the file system: path -> "file" | "dir" (absent: not in DOMAIN)
    hist,           \* of the latest run: what run_dumper validated, what its worker did
    dlg             \* the dialog helper call under examination (dialog specification)

vars == <<exec_entry, meta_entry, output_entry, run_button, output_log,
          afterQueue, threads, fs, hist, dlg>>

mainVars == <<exec_entry, meta_entry, output_entry, run_button, output_log,
              afterQueue, threads, fs, hist>>

-----------------------------------------------------------------------------
(* Bounds *)

\* Number of runs (worker threads) started in one behaviour.
MaxRuns == 2
\* Number of entries of the main thread's own handlers (browse results,
\* pre-check errors) that the log holds at one time.
MaxUserLog == 1

-----------------------------------------------------------------------------
(* Text *)

Whitespace == {" ", "\n"}

EmptyText == << >>

\* str.strip(): drop leading and trailing whitespace, keep the inside.
RECURSIVE lstrip(_)
lstrip(s) ==
    IF s # << >> /\ Head(s) \in Whitespace THEN lstrip(Tail(s)) ELSE s

RECURSIVE rstrip(_)
rstrip(s) ==
    IF s # << >> /\ s[Len(s)] \in Whitespace
    THEN rstrip(SubSeq(s, 1, Len(s) - 1))
    ELSE s

strip(s) == rstrip(lstrip(s))

\* os.path.join(initial_dir, ''): the path with one trailing separator.
join_empty(p) == IF p # << >> /\ p[Len(p)] = "/" THEN p ELSE Append(p, "/")

-----------------------------------------------------------------------------
(* get_native_dialog_selection *)

\* What subprocess.run(command, ...) of the helper can do: raise, or return
\* a CompletedProcess with a return code and the captured stdout.
HelperStdouts ==
    { << >>, <<"\n">>, <<"file", "\n">>, <<" ", "new", "\n">>, <<"dir">> }

HelperOutcomes ==
    { [raises |-> TRUE, returncode |-> 0, stdout |-> << >>] } \cup
    [raises : {FALSE}, returncode : {0, 1, 2}, stdout : HelperStdouts]

\* The helper results the browse handlers meet in the application: the
\* user picks the existing file (file mode) or names the new directory
\* (directory mode), or cancels, or the helper fails.
BrowseOutcomes(file_type) ==
    { [raises |-> TRUE, returncode |-> 0, stdout |-> << >>],
      [raises |-> FALSE, returncode |-> 0,
       stdout |-> IF file_type = "directory" THEN <<"new", "\n">> ELSE <<"file", "\n">>],
      [raises |-> FALSE, returncode |-> 0, stdout |-> <<"\n">>],
      [raises |-> FALSE, returncode |-> 1, stdout |-> << >>] }

BrowseEnvs ==
    { [os_name |-> "posix", zenity |-> TRUE, kdialog |-> FALSE],
      [os_name |-> "posix", zenity |-> FALSE, kdialog |-> TRUE],
      [os_name |-> "posix", zenity |-> FALSE, kdialog |-> FALSE] }

\* shutil.which() of the two helpers and os.name.
DialogEnvs == [os_name : {"posix", "nt"}, zenity : BOOLEAN, kdialog : BOOLEAN]

\* The return value (selected_path, status_code); isNone tells None from a
\* string, raised tells whether an exception left the function.
DialogReturn(path, isNone, status, command) ==
    [path |-> path, isNone |-> isNone, status |-> status,
     raised |-> FALSE, command |-> command]

zenity_command(prompt, file_type, initial_dir) ==
    <<"zenity", "--file-selection", "--title", prompt>>
    \o (IF file_type = "directory" THEN <<"--directory">> ELSE << >>)
    \o (IF initial_dir # << >>
        THEN <<"--filename">> \o join_empty(initial_dir)
        ELSE << >>)

kdialog_command(prompt, file_type, initial_dir) ==
    <<"kdialog", "--title", prompt>>
    \o (IF file_type = "directory"
        THEN <<"--getexistingdirectory">>
        ELSE <<"--getopenfilename">>)
    \o initial_dir

\* Lines 27-51: the command built from the first helper found.
build_command(env, prompt, file_type, initial_dir) ==
    IF env.zenity THEN zenity_command(prompt, file_type, initial_dir)
    ELSE IF env.kdialog THEN kdialog_command(prompt, file_type, initial_dir)
    ELSE << >>

\* Lines 58-67 without the strip() of line 58.
map_result_unstripped(result, command) ==
    LET selected_path == result.stdout IN
    IF result.returncode = 0 /\ selected_path # << >>
    THEN DialogReturn(selected_path, FALSE, 0, command)
    ELSE IF result.returncode = 1
    THEN DialogReturn(<< >>, TRUE, 1, command)
    ELSE DialogReturn(<< >>, TRUE, -1, command)

\* Lines 58-67: the mapping of the helper's result.
map_result(result, command) ==
    LET selected_path == strip(result.stdout) IN
    IF result.returncode = 0 /\ selected_path # << >>
    THEN DialogReturn(selected_path, FALSE, 0, command)
    ELSE IF result.returncode = 1
    THEN DialogReturn(<< >>, TRUE, 1, command)
    ELSE DialogReturn(<< >>, TRUE, -1, command)

get_native_dialog_selection(env, outcome, prompt, file_type, initial_dir) ==
    IF env.os_name # "posix"
    THEN DialogReturn(<< >>, TRUE, -1, << >>)
    ELSE LET command == build_command(env, prompt, file_type, initial_dir) IN
         IF command = << >>
         THEN DialogReturn(<< >>, TRUE, -1, << >>)
         ELSE IF outcome.raises
              THEN DialogReturn(<< >>, TRUE, -1, command)   \* except Exception
              ELSE map_result(outcome, command)

-----------------------------------------------------------------------------
(* The main window: fields, log, run button *)

ExistingFile == <<"file">>    \* an existing regular file
MissingFile == <<"gone">>     \* a file path at which nothing exists
AbsentPath == <<"new">>       \* a directory path at which nothing exists yet

\* What the user types into a field: nothing, or a file path into the two
\* file fields, or a directory path into the output field.
TypedPaths(fld) ==
    IF fld = "output" THEN {EmptyText, AbsentPath}
    ELSE {EmptyText, ExistingFile, MissingFile}

Fields == {"exec", "meta", "output"}

exists(f, p) == p \in DOMAIN f                       \* os.path.exists
isdir(f, p)  == p \in DOMAIN f /\ f[p] = "dir"       \* os.path.isdir

\* An os.makedirs that returns without creating anything.
makedirs_nothing(f, p) == f

\* os.makedirs(p, exist_ok=True) when it succeeds.
makedirs(f, p) == [q \in DOMAIN f \cup {p} |-> IF q = p THEN "dir" ELSE f[q]]

\* The OSError os.makedirs can raise for p: something that is no directory
\* is in the way, or the parent refuses the creation.
makedirs_errors(f, p) == IF exists(f, p) THEN {"EEXIST"} ELSE {"EACCES"}

\* A log line: the message template, the paths and text put into it, and
\* the colour tag.  src is the run whose worker submitted it, 0 for an
\* entry the main thread's own handlers wrote.
LogEntry(msg, paths, data, code, tag, src) ==
    [msg |-> msg, paths |-> paths, data |-> data, code |-> code,
     tag |-> tag, src |-> src]

\* _log_message(message, tag): insert at "end".
_log_message(log, entry) == Append(log, entry)

UserEntries(log) == {i \in 1..Len(log) : log[i].src = 0}

\* The cap on the main thread's own log entries.
UserLogRoom == Cardinality(UserEntries(output_log)) < MaxUserLog

\* The user clicks Run while fewer than MaxRuns runs have been started.
MayClick == Len(threads) < MaxRuns

\* The entries are read by run_dumper, which runs only on a click while the
\* button is "normal", and by a worker at its first three statements.  An
\* edit made at any other moment is read by nobody before the next click
\* is possible, so the model lets the user make it then.
ReadLabels == {"read_exec", "read_meta", "read_output"}

FieldsLive ==
    \/ run_button = "normal" /\ MayClick
    \/ \E w \in 1..Len(threads) : threads[w].pc \in ReadLabels

\* The user edits a field.
SetField(fld, p) ==
    /\ FieldsLive
    /\ \/ fld = "exec" /\ exec_entry # p /\ exec_entry' = p
          /\ UNCHANGED <<meta_entry, output_entry>>
       \/ fld = "meta" /\ meta_entry # p /\ meta_entry' = p
          /\ UNCHANGED <<exec_entry, output_entry>>
       \/ fld = "output" /\ output_entry # p /\ output_entry' = p
          /\ UNCHANGED <<exec_entry, meta_entry>>
    /\ UNCHANGED <<run_button, output_log, afterQueue, threads, fs, hist, dlg>>

\* browse_executable / browse_metadata / browse_output_dir: the three
\* handlers differ in the field, the prompt, the selection mode and the
\* wording of the messages.
BrowsePrompt(fld) ==
    CASE fld = "exec"   -> "Select Executable File"
      [] fld = "meta"   -> "Select Global Metadata File"
      [] fld = "output" -> "Select Output Directory"

BrowseFileType(fld) == IF fld = "output" THEN "directory" ELSE "file"

BrowseSelectedMsg(fld) ==
    CASE fld = "exec"   -> "Selected executable: {}"
      [] fld = "meta"   -> "Selected metadata: {}"
      [] fld = "output" -> "Selected output directory: {}"

BrowseErrorMsg(fld) ==
    IF fld = "output"
    THEN "Error: Could not open a native directory dialog."
    ELSE "Error: Could not open a native file dialog."

Browse(fld, env, outcome) ==
    LET r == get_native_dialog_selection(env, outcome, BrowsePrompt(fld),
                                         BrowseFileType(fld), << >>)
    IN
    /\ UserLogRoom
    /\ \/ /\ r.status = 0
          /\ exec_entry' = IF fld = "exec" THEN r.path ELSE exec_entry
          /\ meta_entry' = IF fld = "meta" THEN r.path ELSE meta_entry
          /\ output_entry' = IF fld = "output" THEN r.path ELSE output_entry
          /\ output_log' = _log_message(output_log,
                 LogEntry(BrowseSelectedMsg(fld), <<r.path>>, "", 0, "info", 0))
       \/ /\ r.status = -1
          /\ output_log' = _log_message(output_log,
                 LogEntry(BrowseErrorMsg(fld), << >>, "", 0, "red", 0))
          /\ UNCHANGED <<exec_entry, meta_entry, output_entry>>
       \/ /\ r.status = 1
          /\ UNCHANGED <<exec_entry, meta_entry, output_entry, output_log>>
    /\ UNCHANGED <<run_button, afterQueue, threads, fs, hist, dlg>>

-----------------------------------------------------------------------------
(* run_dumper: the handler of the Run button *)

NoEntry == LogEntry("", << >>, "", 0, "", 0)

\* Lines 245-253 without the check of the metadata file (lines 251-253).
PreCheck_no_metadata_check(f, exec_file, meta_file, output_dir) ==
    IF exec_file = << >> \/ meta_file = << >> \/ output_dir = << >>
    THEN LogEntry("Error: All fields must be filled!", << >>, "", 0, "red", 0)
    ELSE IF ~exists(f, exec_file)
    THEN LogEntry("Error: Executable file not found at {}",
                  <<exec_file>>, "", 0, "red", 0)
    ELSE NoEntry

\* Lines 245-253: the error entry of the first failing pre-check, NoEntry
\* when all three pass.
PreCheck(f, exec_file, meta_file, output_dir) ==
    IF exec_file = << >> \/ meta_file = << >> \/ output_dir = << >>
    THEN LogEntry("Error: All fields must be filled!", << >>, "", 0, "red", 0)
    ELSE IF ~exists(f, exec_file)
    THEN LogEntry("Error: Executable file not found at {}",
                  <<exec_file>>, "", 0, "red", 0)
    ELSE IF ~exists(f, meta_file)
    THEN LogEntry("Error: Metadata file not found at {}",
                  <<meta_file>>, "", 0, "red", 0)
    ELSE NoEntry

\* run_dumper without line 256.
TriggerState_left_enabled == "normal"

\* Line 256: the state run_dumper gives the button before it starts the thread.
TriggerState == "disabled"

NoProcess == [kind |-> "none", stdout |-> "", stderr |-> "", returncode |-> 0]

\* A thread at the first statement of run_dumper_async.
NewThread ==
    [pc |-> "read_exec", exec_file |-> << >>, meta_file |-> << >>,
     output_dir |-> << >>, error |-> "", process |-> NoProcess]

\* A thread that has returned: its locals are gone.
DoneThread == [NewThread EXCEPT !.pc = "done"]

NewHist(w, exec_file, meta_file, output_dir) ==
    [run |-> w,
     validated |-> <<exec_file, meta_file, output_dir>>,
     submitted |-> << >>,      \* log entries the worker handed to self.after
     invoked |-> << >>,        \* argument lists given to subprocess.run
     dirThen |-> << >>,        \* for each of them: was output_dir a directory
     absentAtCheck |-> FALSE,  \* os.path.isdir(output_dir) was False
     makedirsFailed |-> FALSE, \* os.makedirs raised OSError
     process |-> NoProcess,    \* what subprocess.run did
     enables |-> 0]            \* dispatched run_button.configure(state="normal")

\* A click on a disabled button runs no command: run_dumper runs only
\* while the button is "normal".
run_dumper ==
    /\ MayClick
    /\ run_button = "normal"
    /\ LET exec_file == exec_entry
           meta_file == meta_entry
           output_dir == output_entry
           err == PreCheck(fs, exec_file, meta_file, output_dir)
       IN IF err # NoEntry
          THEN /\ UserLogRoom
               /\ output_log' = _log_message(output_log, err)
               /\ UNCHANGED <<run_button, threads, hist>>
          ELSE /\ run_button' = TriggerState
               /\ output_log' = << >>
               /\ threads' = Append(threads, NewThread)
               /\ hist' = NewHist(Len(threads) + 1, exec_file, meta_file, output_dir)
    /\ UNCHANGED <<exec_entry, meta_entry, output_entry, afterQueue, fs, dlg>>

-----------------------------------------------------------------------------
(* self.after(0, ...) and the main loop *)

LogCallback(entry) == [fn |-> "_log_message", entry |-> entry, src |-> entry.src]

ConfigureCallback(w) ==
    [fn |-> "configure", entry |-> NoEntry, src |-> w]

\* A dispatch that runs the newest callback first.
after_front(queue, callback) == <<callback>> \o queue

\* self.after(0, callback): Tk runs the callbacks of equal delay in the
\* order they were scheduled.
after(queue, callback) == Append(queue, callback)

\* The main loop runs the oldest scheduled callback.
Dispatch ==
    /\ afterQueue # << >>
    /\ LET cb == Head(afterQueue) IN
       /\ afterQueue' = Tail(afterQueue)
       /\ IF cb.fn = "_log_message"
          THEN /\ output_log' = _log_message(output_log, cb.entry)
               /\ UNCHANGED <<run_button, hist>>
          ELSE /\ run_button' = "normal"
               /\ hist' = IF cb.src = hist.run
                          THEN [hist EXCEPT !.enables = @ + 1]
                          ELSE hist
               /\ UNCHANGED output_log
    /\ UNCHANGED <<exec_entry, meta_entry, output_entry, threads, fs, dlg>>

-----------------------------------------------------------------------------
(* run_dumper_async: the worker thread, one action per statement that      *)
(* reads or changes something outside the thread                           *)

\* What subprocess.run(["il2cppdumper", ...]) can do: the tool is not on
\* PATH, another exception, or a CompletedProcess.
ToolOutcomes ==
    { [kind |-> "FileNotFoundError", stdout |-> "", stderr |-> "", returncode |-> 0],
      [kind |-> "Exception", stdout |-> "", stderr |-> "", returncode |-> 0] } \cup
    [kind : {"completed"}, stdout : {"", "dumping"},
     stderr : {"", "bad header"}, returncode : {0, 2}]

InternalErrorEntry(w) ==
    LogEntry("Internal Error: Fields were not validated.", << >>, "", 0, "red", w)

WarningEntry(output_dir, w) ==
    LogEntry("Warning: Output directory does not exist, creating output directory: {}",
             <<output_dir>>, "", 0, "warning", w)

OSErrorEntry(output_dir, e, w) ==
    LogEntry("Error: creating output directory {}: {}", <<output_dir>>, e, 0, "red", w)

\* Line 207: the argument list.
dumper_command(exec_file, meta_file, output_dir) ==
    <<<<"il2cppdumper">>, exec_file, meta_file, output_dir>>

PreparingEntry(command, w) ==
    LogEntry("Preparing to run: {}", command, "", 0, "blue", w)

StdoutEntry(process, w) == LogEntry("{}", << >>, process.stdout, 0, "info", w)

StderrEntry(process, w) ==
    LogEntry("Error: (stderr): {}", << >>, process.stderr, 0, "red", w)

\* Lines 223-226 without the test of the return code.
ReturnCodeEntry_always_success(process, w) ==
    LogEntry("Command completed successfully!", << >>, "", 0, "green", w)

\* Lines 223-226.
ReturnCodeEntry(process, w) ==
    IF process.returncode = 0
    THEN LogEntry("Command completed successfully!", << >>, "", 0, "green", w)
    ELSE LogEntry("Command failed with exit code {}", << >>, "",
                  process.returncode, "red", w)

NotFoundEntry(w) ==
    LogEntry("Error: il2cppdumper command not found.", << >>, "", 0, "red", w)

UnexpectedEntry(w) ==
    LogEntry("An unexpected error occurred: {}", << >>, "exception", 0, "red", w)

At(w, label) == w \in 1..Len(threads) /\ threads[w].pc = label

Goto(w, label) ==
    threads' = [threads EXCEPT ![w] = IF label = "done" THEN DoneThread
                                      ELSE [@ EXCEPT !.pc = label]]

\* The worker's notes in hist are those of the latest run.
Note(w, h) == hist' = IF w = hist.run THEN h ELSE hist

\* self.after(0, self._log_message, message, tag) by worker w.
Submit(w, entry) ==
    /\ afterQueue' = after(afterQueue, LogCallback(entry))
    /\ Note(w, [hist EXCEPT !.submitted = Append(@, entry)])

\* self.after(0, <run_button.configure state="normal">) by worker w.
SubmitEnable(w) ==
    /\ afterQueue' = after(afterQueue, ConfigureCallback(w))
    /\ UNCHANGED hist

\* Lines 187-189: the worker reads the three entries again.
ReadExec(w) ==
    /\ At(w, "read_exec")
    /\ threads' = [threads EXCEPT ![w].exec_file = exec_entry, ![w].pc = "read_meta"]
    /\ UNCHANGED <<exec_entry, meta_entry, output_entry, run_button, output_log,
                   afterQueue, fs, hist, dlg>>

ReadMeta(w) ==
    /\ At(w, "read_meta")
    /\ threads' = [threads EXCEPT ![w].meta_file = meta_entry, ![w].pc = "read_output"]
    /\ UNCHANGED <<exec_entry, meta_entry, output_entry, run_button, output_log,
                   afterQueue, fs, hist, dlg>>

ReadOutput(w) ==
    /\ At(w, "read_output")
    /\ threads' = [threads EXCEPT ![w].output_dir = output_entry, ![w].pc = "validate"]
    /\ UNCHANGED <<exec_entry, meta_entry, output_entry, run_button, output_log,
                   afterQueue, fs, hist, dlg>>

\* Line 193: not all([exec_file, meta_file, output_dir]).
NotAllFilled(t) ==
    t.exec_file = << >> \/ t.meta_file = << >> \/ t.output_dir = << >>

\* Lines 193-195: the backup validation; its failure logs and returns.
ValidateFail(w) ==
    /\ At(w, "validate")
    /\ NotAllFilled(threads[w])
    /\ Submit(w, InternalErrorEntry(w))
    /\ Goto(w, "done")
    /\ UNCHANGED <<exec_entry, meta_entry, output_entry, run_button, output_log,
                   fs, dlg>>

\* Lines 193, 198: validation passes; os.path.isdir(output_dir).
CheckDir(w) ==
    /\ At(w, "validate")
    /\ ~NotAllFilled(threads[w])
    /\ IF isdir(fs, threads[w].output_dir)
       THEN Goto(w, "log_command") /\ UNCHANGED hist
       ELSE /\ Goto(w, "makedirs")
            /\ Note(w, [hist EXCEPT !.absentAtCheck = TRUE])
    /\ UNCHANGED <<exec_entry, meta_entry, output_entry, run_button, output_log,
                   afterQueue, fs, dlg>>

\* Line 200: os.makedirs succeeds.
MakedirsOk(w) ==
    /\ At(w, "makedirs")
    /\ ~exists(fs, threads[w].output_dir)
    /\ fs' = makedirs(fs, threads[w].output_dir)
    /\ Goto(w, "log_warning")
    /\ UNCHANGED <<exec_entry, meta_entry, output_entry, run_button, output_log,
                   afterQueue, hist, dlg>>

\* Lines 200, 202: os.makedirs raises OSError.
MakedirsFail(w) ==
    /\ At(w, "makedirs")
    /\ \E e \in makedirs_errors(fs, threads[w].output_dir) :
          threads' = [threads EXCEPT ![w].error = e, ![w].pc = "log_oserror"]
    /\ Note(w, [hist EXCEPT !.makedirsFailed = TRUE])
    /\ UNCHANGED <<exec_entry, meta_entry, output_entry, run_button, output_log,
                   afterQueue, fs, dlg>>

\* Line 201.
LogWarning(w) ==
    /\ At(w, "log_warning")
    /\ Submit(w, WarningEntry(threads[w].output_dir, w))
    /\ Goto(w, "log_command")
    /\ UNCHANGED <<exec_entry, meta_entry, output_entry, run_button, output_log,
                   fs, dlg>>

\* Line 203.
LogOSError(w) ==
    /\ At(w, "log_oserror")
    /\ Submit(w, OSErrorEntry(threads[w].output_dir, threads[w].error, w))
    /\ Goto(w, "enable_oserror")
    /\ UNCHANGED <<exec_entry, meta_entry, output_entry, run_button, output_log,
                   fs, dlg>>

\* The OSError handler without its return (line 205).
AfterOSError_falls_through == "log_command"

\* Lines 204-205: where the OSError handler goes after scheduling the
\* re-enabling of the button.
AfterOSError == "done"

EnableAfterOSError(w) ==
    /\ At(w, "enable_oserror")
    /\ SubmitEnable(w)
    /\ Goto(w, AfterOSError)
    /\ UNCHANGED <<exec_entry, meta_entry, output_entry, run_button, output_log,
                   fs, dlg>>

\* Lines 207-208.
LogCommand(w) ==
    /\ At(w, "log_command")
    /\ Submit(w, PreparingEntry(dumper_command(threads[w].exec_file,
                     threads[w].meta_file, threads[w].output_dir), w))
    /\ Goto(w, "run")
    /\ UNCHANGED <<exec_entry, meta_entry, output_entry, run_button, output_log,
                   fs, dlg>>

\* Lines 211-216: subprocess.run.
RunTool(w, outcome) ==
    /\ At(w, "run")
    /\ threads' = [threads EXCEPT
           ![w].process = outcome,
           ![w].pc = CASE outcome.kind = "completed" -> "log_stdout"
                       [] outcome.kind = "FileNotFoundError" -> "log_notfound"
                       [] OTHER -> "log_unexpected"]
    /\ Note(w, [hist EXCEPT
           !.invoked = Append(@, dumper_command(threads[w].exec_file,
                                   threads[w].meta_file, threads[w].output_dir)),
           !.dirThen = Append(@, isdir(fs, threads[w].output_dir)),
           !.process = outcome])
    /\ UNCHANGED <<exec_entry, meta_entry, output_entry, run_button, output_log,
                   afterQueue, fs, dlg>>

\* Lines 218-219.
LogStdout(w) ==
    /\ At(w, "log_stdout")
    /\ IF threads[w].process.stdout # ""
       THEN Submit(w, StdoutEntry(threads[w].process, w))
       ELSE UNCHANGED <<afterQueue, hist>>
    /\ Goto(w, "log_stderr")
    /\ UNCHANGED <<exec_entry, meta_entry, output_entry, run_button, output_log,
                   fs, dlg>>

\* Lines 220-221.
LogStderr(w) ==
    /\ At(w, "log_stderr")
    /\ IF threads[w].process.stderr # ""
       THEN Submit(w, StderrEntry(threads[w].process, w))
       ELSE UNCHANGED <<afterQueue, hist>>
    /\ Goto(w, "log_returncode")
    /\ UNCHANGED <<exec_entry, meta_entry, output_entry, run_button, output_log,
                   fs, dlg>>

\* Lines 223-226.
LogReturnCode(w) ==
    /\ At(w, "log_returncode")
    /\ Submit(w, ReturnCodeEntry(threads[w].process, w))
    /\ Goto(w, "finally")
    /\ UNCHANGED <<exec_entry, meta_entry, output_entry, run_button, output_log,
                   fs, dlg>>

\* Lines 228-229.
LogNotFound(w) ==
    /\ At(w, "log_notfound")
    /\ Submit(w, NotFoundEntry(w))
    /\ Goto(w, "finally")
    /\ UNCHANGED <<exec_entry, meta_entry, output_entry, run_button, output_log,
                   fs, dlg>>

\* Lines 230-231.
LogUnexpected(w) ==
    /\ At(w, "log_unexpected")
    /\ Submit(w, UnexpectedEntry(w))
    /\ Goto(w, "finally")
    /\ UNCHANGED <<exec_entry, meta_entry, output_entry, run_button, output_log,
                   fs, dlg>>

\* Lines 232-233.
Finally(w) ==
    /\ At(w, "finally")
    /\ SubmitEnable(w)
    /\ Goto(w, "done")
    /\ UNCHANGED <<exec_entry, meta_entry, output_entry, run_button, output_log,
                   fs, dlg>>

Worker(w) ==
    \/ ReadExec(w) \/ ReadMeta(w) \/ ReadOutput(w)
    \/ ValidateFail(w) \/ CheckDir(w)
    \/ MakedirsOk(w) \/ MakedirsFail(w)
    \/ LogWarning(w) \/ LogOSError(w) \/ EnableAfterOSError(w)
    \/ LogCommand(w)
    \/ \E outcome \in ToolOutcomes : RunTool(w, outcome)
    \/ LogStdout(w) \/ LogStderr(w) \/ LogReturnCode(w)
    \/ LogNotFound(w) \/ LogUnexpected(w)
    \/ Finally(w)

-----------------------------------------------------------------------------
(* The application *)

NoDialog ==
    [pc |-> "idle", env |-> [os_name |-> "posix", zenity |-> FALSE, kdialog |-> FALSE],
     outcome |-> [raises |-> FALSE, returncode |-> 0, stdout |-> << >>],
     file_type |-> "file", initial_dir |-> << >>,
     ret |-> DialogReturn(<< >>, TRUE, -1, << >>)]

InitialFs == (ExistingFile :> "file")

Init ==
    /\ exec_entry = << >>
    /\ meta_entry = << >>
    /\ output_entry = << >>
    /\ run_button = "normal"
    /\ output_log = << >>
    /\ afterQueue = << >>
    /\ threads = << >>
    /\ fs = InitialFs
    /\ hist = NewHist(0, << >>, << >>, << >>)
    /\ dlg = NoDialog

Next ==
    \/ \E fld \in Fields : \E p \in TypedPaths(fld) : SetField(fld, p)
    \/ \E fld \in Fields, env \in BrowseEnvs :
          \E outcome \in BrowseOutcomes(BrowseFileType(fld)) : Browse(fld, env, outcome)
    \/ run_dumper
    \/ Dispatch
    \/ \E w \in 1..MaxRuns : Worker(w)

Spec == Init /\ [][Next]_vars

-----------------------------------------------------------------------------
(* get_native_dialog_selection on its own: every environment, every helper  *)
(* result, both selection modes, with and without initial_dir               *)

DialogCall(env, outcome, file_type, initial_dir) ==
    /\ dlg.pc = "idle"
    /\ dlg' = [pc |-> "returned", env |-> env, outcome |-> outcome,
               file_type |-> file_type, initial_dir |-> initial_dir,
               ret |-> get_native_dialog_selection(env, outcome, "Select",
                                                   file_type, initial_dir)]
    /\ UNCHANGED mainVars

DialogDone ==
    /\ dlg.pc = "returned"
    /\ dlg' = NoDialog
    /\ UNCHANGED mainVars

NextDialog ==
    \/ \E env \in DialogEnvs, outcome \in HelperOutcomes,
          file_type \in {"file", "directory"}, initial_dir \in {<< >>, <<"home">>} :
          DialogCall(env, outcome, file_type, initial_dir)
    \/ DialogDone

SpecDialog == Init /\ [][NextDialog]_vars

-----------------------------------------------------------------------------
(* Properties *)

Threads == 1..Len(threads)

Active(w) == threads[w].pc # "done"

\* The entries of the log that worker w submitted, in log order.
WorkerLog(w) == SelectSeq(output_log, LAMBDA e : e.src = w)

\* The entries worker w submitted that the main loop has not run yet.
PendingLogs(w) ==
    LET q == SelectSeq(afterQueue, LAMBDA cb : cb.src = w /\ cb.fn = "_log_message")
    IN [i \in 1..Len(q) |-> q[i].entry]

PendingEnables(w) ==
    Len(SelectSeq(afterQueue, LAMBDA cb : cb.src = w /\ cb.fn = "configure"))

\* The latest run is over: its worker has returned and the main loop has
\* run everything the worker scheduled.
RunOver ==
    /\ hist.run \in Threads
    /\ threads[hist.run].pc = "done"
    /\ PendingLogs(hist.run) = << >>
    /\ PendingEnables(hist.run) = 0

IsPrefix(s, t) == Len(s) <= Len(t) /\ s = SubSeq(t, 1, Len(s))

\* C1: at most one worker thread is active at any time, and while the run
\* button is enabled (so that run_dumper can start a worker) no worker is
\* still running: the button is disabled from the start of a worker until
\* that worker has returned.
C1_SingleWorker ==
    /\ Cardinality({w \in Threads : Active(w)}) <= 1
    /\ run_button = "normal" => \A w \in Threads : ~Active(w)

\* A second run is under way, about to call the tool, with the button
\* disabled: the first worker ended and the button was enabled in between.
C1_Witness ==
    /\ Len(threads) = 2
    /\ threads[2].pc = "run"
    /\ threads[1].pc = "done"
    /\ run_button = "disabled"

\* The three ways a pre-check of run_dumper fails, read off the entries
\* and the file system at the click.
SomeFieldEmpty == exec_entry = << >> \/ meta_entry = << >> \/ output_entry = << >>

ExecMissing == ~SomeFieldEmpty /\ exec_entry \notin DOMAIN fs

MetaMissing == ~SomeFieldEmpty /\ exec_entry \in DOMAIN fs /\ meta_entry \notin DOMAIN fs

\* C3: when a pre-check of run_dumper fails (a field is empty, or the
\* executable or the metadata file does not exist), the click starts no
\* worker, leaves the button enabled, keeps the log and appends exactly one
\* error entry to it, which names the missing path in the two not-found cases.
C3_PreCheckFailure ==
    [][ (run_dumper /\ (SomeFieldEmpty \/ ExecMissing \/ MetaMissing)) =>
            /\ threads' = threads
            /\ run_button = "normal" /\ run_button' = "normal"
            /\ afterQueue' = afterQueue
            /\ Len(output_log') = Len(output_log) + 1
            /\ SubSeq(output_log', 1, Len(output_log)) = output_log
            /\ LET e == output_log'[Len(output_log')] IN
               /\ e.tag = "red"
               /\ SomeFieldEmpty => e.msg = "Error: All fields must be filled!"
               /\ ExecMissing => /\ e.msg = "Error: Executable file not found at {}"
                                 /\ e.paths = <<exec_entry>>
               /\ MetaMissing => /\ e.msg = "Error: Metadata file not found at {}"
                                 /\ e.paths = <<meta_entry>>
      ]_vars

\* The click with a missing metadata file has been handled: the log holds
\* the error naming the path, after an earlier run's entries, no worker is
\* running and the button is enabled.
C3_Witness ==
    /\ Len(output_log) >= 2
    /\ output_log[Len(output_log)].msg = "Error: Metadata file not found at {}"
    /\ output_log[Len(output_log)].paths = <<meta_entry>>
    /\ meta_entry = MissingFile
    /\ Len(threads) = 1
    /\ run_button = "normal"

C5_DirectoryBeforeTool ==
    /\ \A i \in 1..Len(hist.dirThen) : hist.dirThen[i]
    /\ hist.absentAtCheck =>
          \A i \in 1..Len(output_log) :
             (output_log[i].src = hist.run /\ output_log[i].tag = "blue") =>
                \E j \in 1..(i - 1) :
                   /\ output_log[j].src = hist.run
                   /\ output_log[j].tag = "warning"
                   /\ output_log[j].paths = <<output_log[i].paths[4]>>
    /\ (hist.absentAtCheck /\ hist.invoked # << >>) =>
          \E k \in 1..Len(hist.submitted) : hist.submitted[k].tag = "warning"

\* The directory was absent, has been created, the tool has been called
\* and both entries are in the log.
C5_Witness ==
    /\ hist.absentAtCheck
    /\ hist.invoked # << >>
    /\ AbsentPath \in DOMAIN fs
    /\ \E i \in 1..Len(output_log) : output_log[i].tag = "blue"

\* The entries that are to follow the command line for a finished
\* tool, as <<tag, text, exit status>>: stdout if any, stderr if any, then
\* success or the exit status.
ExpectedAfterCommand(process) ==
    (IF process.stdout # "" THEN << <<"info", process.stdout, 0>> >> ELSE << >>)
    \o (IF process.stderr # "" THEN << <<"red", process.stderr, 0>> >> ELSE << >>)
    \o << IF process.returncode = 0
          THEN <<"green", "", 0>>
          ELSE <<"red", "", process.returncode>> >>

Shape(es) == [i \in 1..Len(es) |-> <<es[i].tag, es[i].data, es[i].code>>]

\* The part of a worker's log that follows its command-line entry.
AfterCommand(es) ==
    LET at == {i \in 1..Len(es) : es[i].tag = "blue"}
    IN IF at = {} THEN << >>
       ELSE SubSeq(es, (CHOOSE i \in at : TRUE) + 1, Len(es))

\* C6: for a tool that ran to completion, the worker's entries in the log
\* after the command line are a beginning of: stdout (iff non-empty),
\* stderr (iff non-empty), then one closing entry, success iff the exit
\* status is 0 and otherwise the error naming the status; they are all of
\* it once the run is over; no success entry exists for a non-zero status.
C6_ResultEntries ==
    LET w == hist.run
        shown == Shape(AfterCommand(WorkerLog(w)))
        expected == ExpectedAfterCommand(hist.process)
    IN
    /\ hist.process.kind = "completed" =>
          /\ IsPrefix(shown, expected)
          /\ RunOver => shown = expected
    /\ hist.process.returncode # 0 =>
          \A i \in 1..Len(output_log) : output_log[i].tag # "green"
    /\ hist.process.kind # "completed" =>
          \A i \in 1..Len(output_log) : output_log[i].tag # "green"

\* A run is over whose tool printed to both streams and exited with 2.
C6_Witness ==
    /\ RunOver
    /\ hist.process.kind = "completed"
    /\ hist.process.stdout # ""
    /\ hist.process.stderr = "bad header"
    /\ hist.process.returncode = 2
    /\ Len(AfterCommand(WorkerLog(hist.run))) = 3
    /\ Cardinality(UserEntries(output_log)) = 1

\* C7: the entries a worker has submitted are, in the order of submission,
\* those of its entries already in the log followed by those still queued
\* (none lost, doubled or reordered); and no step of a worker thread
\* changes the log or the state of the button.
SubmissionOrder ==
    hist.run \in Threads =>
        WorkerLog(hist.run) \o PendingLogs(hist.run) = hist.submitted

C7_OrderedDispatch ==
    [][ /\ SubmissionOrder'
        /\ (\E w \in 1..MaxRuns : Worker(w)) =>
              (output_log' = output_log /\ run_button' = run_button)
      ]_vars

\* Some of a worker's entries are in the log, around an entry of the main
\* thread, and more of them wait in the queue.
C7_Witness ==
    /\ hist.run \in Threads
    /\ Len(WorkerLog(hist.run)) >= 2
    /\ Len(PendingLogs(hist.run)) >= 2
    /\ \E i \in 2..Len(output_log) :
          output_log[i].src = 0 /\ output_log[i - 1].src = hist.run

\* The text str.strip() leaves of each helper output of HelperStdouts,
\* written out.
Trimmed(stdout) ==
    CASE stdout = << >> -> << >>
      [] stdout = <<"\n">> -> << >>
      [] stdout = <<"file", "\n">> -> <<"file">>
      [] stdout = <<" ", "new", "\n">> -> <<"new">>
      [] stdout = <<"dir">> -> <<"dir">>

\* C8: get_native_dialog_selection returns status -1 (Unavailable) when
\* os.name is not posix or neither helper is found; otherwise status 0 with
\* the trimmed stdout iff the helper exits 0 with non-empty trimmed stdout,
\* status 1 (Cancelled) iff it exits 1, status -1 for every other result
\* and for an exception; no exception leaves the function; zenity is the
\* helper run whenever it is found, kdialog only when zenity is not.
C8_DialogResult ==
    dlg.pc = "returned" =>
        LET r == dlg.ret
            env == dlg.env
            o == dlg.outcome
            available == env.os_name = "posix" /\ (env.zenity \/ env.kdialog)
            selected == available /\ ~o.raises /\ o.returncode = 0
                        /\ Trimmed(o.stdout) # << >>
            cancelled == available /\ ~o.raises /\ o.returncode = 1
        IN
        /\ ~r.raised
        /\ r.status \in {0, 1, -1}
        /\ r.status = 0 <=> selected
        /\ r.status = 1 <=> cancelled
        /\ r.status = 0 => (r.path = Trimmed(o.stdout) /\ ~r.isNone)
        /\ r.status # 0 => r.isNone
        /\ available => r.command[1] = (IF env.zenity THEN "zenity" ELSE "kdialog")
        /\ ~available => r.command = << >>

\* Both helpers are found, zenity was run and printed the path with blanks
\* around it.
C8_Witness ==
    /\ dlg.pc = "returned"
    /\ dlg.env = [os_name |-> "posix", zenity |-> TRUE, kdialog |-> TRUE]
    /\ dlg.outcome.stdout = <<" ", "new", "\n">>
    /\ dlg.ret.status = 0
    /\ dlg.ret.path = <<"new">>
    /\ dlg.ret.command[1] = "zenity"

\* C2: once a run is over (its worker has returned and the main loop has
\* run all it scheduled), the button has been re-enabled exactly once for
\* that run.
C2_ReenabledOnce == RunOver => (hist.enables = 1 /\ run_button = "normal")

\* C9: a worker that reaches the backup validation holds three non-empty
\* values.
C9_BackupNeverFails ==
    \A w \in Threads : threads[w].pc = "validate" => ~NotAllFilled(threads[w])

\* C10: when the tool has run, the arguments it was called with are the
\* values run_dumper read and validated for that run.
C10_ValidatedArguments ==
    hist.process.kind = "completed" =>
        \A i \in 1..Len(hist.invoked) :
            hist.invoked[i] = dumper_command(hist.validated[1], hist.validated[2],
                                             hist.validated[3])

====
